---- MODULE Spec2Model ----
(***************************************************************************)
(* Model of package req (itnxs/req): the cached, retrying fetcher          *)
(* (cacheName, doRequest, Get, Post), the cache maintenance call           *)
(* (RemoveCache), the alternate strategies (ChromeGet, CurlGet), the       *)
(* process-wide setters, and the bounded fan-out of BatchGet.              *)
(*                                                                         *)
(* One caller goroutine issues the package's calls one after another;      *)
(* BatchGet starts one goroutine per url behind errgroup's limit, and      *)
(* these interleave at every call that touches shared state (the cache     *)
(* directory, the transport, the mutexes, the result map).                 *)
(***************************************************************************)
EXTENDS Integers, Sequences, FiniteSets, TLC

(* ---------------------------- bounds ----------------------------------- *)
\* longest url list handed to BatchGet
MaxUrls == 2
\* largest value handed to SetLimit
MaxLimit == 2
\* largest value handed to SetRetryCount
MaxRetry == 1

(* ----------------------- program constants ----------------------------- *)
DefaultLimit == 10
DefaultRetryCount == 3
DefaultCachePath == ""
MethodGet == "GET"
MethodPost == "POST"
StatusOK == 200

(* ------------------------- input universes ----------------------------- *)
\* urls handed to the package
Urls == {"u1", "u2"}
\* variadic request arguments v (each a sequence of string values)
ArgLists == {<< >>, <<"x">>}
\* directories handed to SetCachePath (already absolute)
CacheDirs == {"/c"}
\* response bodies the collaborators can deliver
Bodies == {"", "b"}
\* non-200 status codes the transport can answer with
FailCodes == {404, 500}
\* urls whose server answers every request with a non-200 status
Down == {"u2"}

\* urls for the derivation of cache names: one url continues another with
\* the text of a serialized argument list
KeyUrls == {"u1", "u1[\"x\"]", "u2"}
Methods == {MethodGet, MethodPost}
Requests == [method : Methods, url : KeyUrls, v : ArgLists]

\* the caller's own fetch frame; batch tasks use their 0-based index
Main == -1
Slots == {Main} \cup (0 .. MaxUrls - 1)
NoOwner == -2

\* all non-empty url lists up to MaxUrls
UrlLists == UNION {[1 .. n -> Urls] : n \in 1 .. MaxUrls}

(* ------------------------- pure functions ------------------------------ *)
\* md5sum: hex digest of v. The digest is modelled as an injective tag of its
\* input (no two inputs of the model share a digest).
md5sum(v) == "md5(" \o v \o ")"

RECURSIVE JoinValues(_)
\* the comma separated JSON encodings of a list of string values
JoinValues(v) ==
    IF v = << >> THEN ""
    ELSE "\"" \o Head(v) \o "\""
         \o (IF Tail(v) = << >> THEN "" ELSE "," \o JoinValues(Tail(v)))

\* jsoniter.MarshalToString of the argument slice: a JSON array
MarshalToString(v) == "[" \o JoinValues(v) \o "]"

\* a cacheName that derives a path also when no cache path is configured
cacheNameAtAnyPath(path, method, url, v) ==
    LET args == IF Len(v) > 0 THEN MarshalToString(v) ELSE ""
    IN  path \o "/." \o md5sum(url \o args) \o "." \o method \o ".cache"

\* cacheName with the configured cache path given explicitly
cacheNameAt(path, method, url, v) ==
    IF path # ""
    THEN LET args == IF Len(v) > 0 THEN MarshalToString(v) ELSE ""
         IN  path \o "/." \o md5sum(url \o args) \o "." \o method \o ".cache"
    ELSE ""

\* fileExist: os.Stat succeeds on the name
fileExist(fs, name) == name \in DOMAIN fs

(* ------------------------------ state ---------------------------------- *)
VARIABLES
    defaultLimit,       \* package variable: errgroup limit used by BatchGet
    defaultRetryCount,  \* package variable: retries after a non-200 answer
    defaultCachePath,   \* package variable: cache directory, "" = no caching
    files,              \* the file system: file name -> content
    op,                 \* the call the caller goroutine is inside
    fr,                 \* one doRequest frame per slot (caller, batch tasks)
    sem,                \* tokens held in the errgroup's limit channel
    resMap,             \* BatchGet's result map: index -> string
    errMap,             \* BatchGet's error map: index -> string
    resMutex,           \* holder of resMutex, or NoOwner
    errMutex,           \* holder of errMutex, or NoOwner
    fatal,              \* the runtime stopped the process (concurrent map writes)
    invalidated,        \* urls whose RemoveCache returned, not fetched since
    probe               \* two requests and the cache names derived for them

vars == <<defaultLimit, defaultRetryCount, defaultCachePath, files, op, fr, sem,
          resMap, errMap, resMutex, errMutex, fatal, invalidated, probe>>

config == <<defaultLimit, defaultRetryCount, defaultCachePath>>
batch == <<sem, resMap, errMap, resMutex, errMutex, fatal>>

NoErr == "nil"
NoRequest == [method |-> "", url |-> "", v |-> << >>]
NoProbe == [a |-> NoRequest, b |-> NoRequest, na |-> "", nb |-> ""]
NoResp == [err |-> FALSE, code |-> 0, body |-> ""]
EmptyMap == << >>

\* a frame that is not in use
IdleFrame ==
    [pc |-> "idle", method |-> "", url |-> "", v |-> << >>, retryCount |-> 0,
     calls |-> 0, fails |-> 0, last |-> NoResp, hit |-> FALSE, stored |-> "",
     after |-> FALSE, body |-> "", err |-> NoErr]

IdleOp == [kind |-> "idle", urls |-> << >>, v |-> << >>, next |-> 0, limit |-> 0]

\* cacheName, reading the package variable defaultCachePath
cacheName(method, url, v) == cacheNameAt(defaultCachePath, method, url, v)

\* the cache file name of the request a frame carries
NameOf(s) == cacheName(fr[s].method, fr[s].url, fr[s].v)

(* ---------------------------- transport -------------------------------- *)
\* what req.Do can deliver for a url: a transport error, a non-200 status,
\* or (unless the server is down) status 200 with a body
Responses(url) ==
    {[err |-> FALSE, code |-> c, body |-> ""] : c \in FailCodes}
    \cup (IF url \in Down THEN {}
          ELSE {[err |-> TRUE, code |-> 0, body |-> ""]}
               \cup {[err |-> FALSE, code |-> StatusOK, body |-> b] : b \in Bodies})

\* fmt.Errorf("http status code: %d", code)
StatusError(code) == "http status code: " \o ToString(code)
TransportError == "transport error"
ReadError == "read error"

Init ==
    /\ defaultLimit = DefaultLimit
    /\ defaultRetryCount = DefaultRetryCount
    /\ defaultCachePath = DefaultCachePath
    /\ files = << >>
    /\ op = IdleOp
    /\ fr = [s \in Slots |-> IdleFrame]
    /\ sem = 0
    /\ resMap = EmptyMap
    /\ errMap = EmptyMap
    /\ resMutex = NoOwner
    /\ errMutex = NoOwner
    /\ fatal = FALSE
    /\ invalidated = {}
    /\ probe = NoProbe

(* ----------------------------- setters --------------------------------- *)
SetLimit(limit) ==
    /\ ~fatal /\ op.kind = "idle"
    /\ defaultLimit' = limit
    /\ UNCHANGED <<probe, defaultRetryCount, defaultCachePath, files, op, fr, batch, invalidated>>

SetRetryCount(retryCount) ==
    /\ ~fatal /\ op.kind = "idle"
    /\ defaultRetryCount' = retryCount
    /\ UNCHANGED <<probe, defaultLimit, defaultCachePath, files, op, fr, batch, invalidated>>

\* the directory is a directory of the file system, not a cache entry:
\* creating it leaves the entries as they are
SetCachePath(dir) ==
    /\ ~fatal /\ op.kind = "idle"
    /\ defaultCachePath' = dir
    /\ UNCHANGED <<probe, defaultLimit, defaultRetryCount, files, op, fr, batch, invalidated>>

(* ---------------------------- doRequest -------------------------------- *)
\* doRequest without the test of line 90: the transport is always asked
LookupSkipsCache(f) ==
    LET name == cacheName(f.method, f.url, f.v)
        found == name # "" /\ fileExist(files, name)
    IN  [f EXCEPT !.pc = "do",
                  !.hit = IF f.retryCount = 0 THEN found ELSE f.hit,
                  !.stored = IF f.retryCount = 0 /\ found THEN files[name] ELSE f.stored]

\* the top of doRequest (lines 89-90): derive the name and stat it. The frame
\* goes on to read the entry or to the transport. hit and stored remember
\* what the call itself (retryCount 0) found.
Lookup(f) ==
    LET name == cacheName(f.method, f.url, f.v)
        found == name # "" /\ fileExist(files, name)
    IN  [f EXCEPT !.pc = IF found THEN "read" ELSE "do",
                  !.hit = IF f.retryCount = 0 THEN found ELSE f.hit,
                  !.stored = IF f.retryCount = 0 /\ found THEN files[name] ELSE f.stored]

\* the frame of a fresh doRequest(method, url, 0, v...)
NewFrame(method, url, v) ==
    Lookup([IdleFrame EXCEPT !.method = method, !.url = url, !.v = v,
                             !.after = url \in invalidated])

\* os.ReadFile(name) and the return of lines 91-92
ReadCache(s) ==
    /\ ~fatal /\ fr[s].pc = "read"
    /\ LET name == NameOf(s)
       IN  fr' = [fr EXCEPT ![s] =
                    IF fileExist(files, name)
                    THEN [@ EXCEPT !.pc = "ret", !.body = files[name], !.err = NoErr]
                    ELSE [@ EXCEPT !.pc = "ret", !.body = "", !.err = ReadError]]
    /\ UNCHANGED <<probe, config, files, op, batch, invalidated>>

\* doRequest retrying once too often (<= for < in line 99)
AfterResponseOneMore(f, rep) ==
    LET g == [f EXCEPT !.calls = @ + 1, !.last = rep,
                       !.fails = IF ~rep.err /\ rep.code # StatusOK THEN @ + 1 ELSE @]
    IN  IF rep.err
        THEN [g EXCEPT !.pc = "ret", !.body = "", !.err = TransportError]
        ELSE IF rep.code # StatusOK
        THEN IF g.retryCount <= defaultRetryCount
             THEN [g EXCEPT !.pc = "sleep", !.retryCount = @ + 1, !.last = NoResp]
             ELSE [g EXCEPT !.pc = "ret", !.body = "", !.err = StatusError(rep.code)]
        ELSE IF cacheName(g.method, g.url, g.v) # ""
             THEN [g EXCEPT !.pc = "write"]
             ELSE [g EXCEPT !.pc = "ret", !.body = rep.body, !.err = NoErr]

\* doRequest retrying after a transport error as after a non-200 status
AfterResponseRetriesError(f, rep) ==
    LET g == [f EXCEPT !.calls = @ + 1, !.last = rep,
                       !.fails = IF ~rep.err /\ rep.code # StatusOK THEN @ + 1 ELSE @]
    IN  IF rep.err \/ rep.code # StatusOK
        THEN IF g.retryCount < defaultRetryCount
             THEN [g EXCEPT !.pc = "sleep", !.retryCount = @ + 1]
             ELSE [g EXCEPT !.pc = "ret", !.body = "",
                            !.err = IF rep.err THEN TransportError
                                    ELSE StatusError(rep.code)]
        ELSE IF cacheName(g.method, g.url, g.v) # ""
             THEN [g EXCEPT !.pc = "write"]
             ELSE [g EXCEPT !.pc = "ret", !.body = rep.body, !.err = NoErr]

\* doRequest storing the body of the last answer when the retries are used up
AfterResponseStoresFailure(f, rep) ==
    LET g == [f EXCEPT !.calls = @ + 1, !.last = rep,
                       !.fails = IF ~rep.err /\ rep.code # StatusOK THEN @ + 1 ELSE @]
    IN  IF rep.err
        THEN [g EXCEPT !.pc = "ret", !.body = "", !.err = TransportError]
        ELSE IF rep.code # StatusOK /\ g.retryCount < defaultRetryCount
        THEN [g EXCEPT !.pc = "sleep", !.retryCount = @ + 1, !.last = NoResp]
        ELSE IF cacheName(g.method, g.url, g.v) # ""
             THEN [g EXCEPT !.pc = "write"]
             ELSE [g EXCEPT !.pc = "ret", !.body = rep.body, !.err = NoErr]

\* what doRequest does with the answer of req.Do (lines 95-107)
AfterResponse(f, rep) ==
    LET g == [f EXCEPT !.calls = @ + 1, !.last = rep,
                       !.fails = IF ~rep.err /\ rep.code # StatusOK THEN @ + 1 ELSE @]
    IN  IF rep.err
        THEN [g EXCEPT !.pc = "ret", !.body = "", !.err = TransportError]
        ELSE IF rep.code # StatusOK
        THEN IF g.retryCount < defaultRetryCount
             THEN [g EXCEPT !.pc = "sleep", !.retryCount = @ + 1, !.last = NoResp]
             ELSE [g EXCEPT !.pc = "ret", !.body = "", !.err = StatusError(rep.code)]
        ELSE IF cacheName(g.method, g.url, g.v) # ""
             THEN [g EXCEPT !.pc = "write"]
             ELSE [g EXCEPT !.pc = "ret", !.body = rep.body, !.err = NoErr]

\* req.Do(method, url, v...)
Transport(s) ==
    /\ ~fatal /\ fr[s].pc = "do"
    /\ \E rep \in Responses(fr[s].url) :
          fr' = [fr EXCEPT ![s] = AfterResponse(@, rep)]
    /\ UNCHANGED <<probe, config, files, op, batch, invalidated>>

\* time.Sleep is over; doRequest calls itself (line 102) and looks the
\* entry up again
Retry(s) ==
    /\ ~fatal /\ fr[s].pc = "sleep"
    /\ fr' = [fr EXCEPT ![s] = Lookup(@)]
    /\ UNCHANGED <<probe, config, files, op, batch, invalidated>>

\* doRequest returning the body without storing it
WriteCacheSkipped(s) ==
    /\ ~fatal /\ fr[s].pc = "write"
    /\ files' = files
    /\ fr' = [fr EXCEPT ![s] = [@ EXCEPT !.pc = "ret", !.body = fr[s].last.body, !.err = NoErr]]
    /\ UNCHANGED <<probe, config, op, batch, invalidated>>

\* os.WriteFile(name, body, os.ModePerm) and the return of line 115
WriteCache(s) ==
    /\ ~fatal /\ fr[s].pc = "write"
    /\ files' = (NameOf(s) :> fr[s].last.body) @@ files
    /\ fr' = [fr EXCEPT ![s] = [@ EXCEPT !.pc = "ret", !.body = fr[s].last.body, !.err = NoErr]]
    /\ UNCHANGED <<probe, config, op, batch, invalidated>>

(* ------------------------- file system faults -------------------------- *)
WriteError == "write error"

\* os.ReadFile fails on an entry that exists (unreadable file, I/O error):
\* lines 91-92 return the empty string and the error
ReadCacheFails(s) ==
    /\ ~fatal /\ fr[s].pc = "read"
    /\ fr' = [fr EXCEPT ![s] = [@ EXCEPT !.pc = "ret", !.body = "", !.err = ReadError]]
    /\ UNCHANGED <<probe, config, files, op, batch, invalidated>>

\* a failing os.WriteFile that hands the fetched body back with the error
WriteCacheFailsKeepsBody(s) ==
    /\ ~fatal /\ fr[s].pc = "write"
    /\ files' \in {files, (NameOf(s) :> "") @@ files}
    /\ fr' = [fr EXCEPT ![s] = [@ EXCEPT !.pc = "ret", !.body = fr[s].last.body,
                                         !.err = WriteError]]
    /\ UNCHANGED <<probe, config, op, batch, invalidated>>

\* os.WriteFile fails (lines 109-112): the file is untouched (it could not
\* be opened) or left truncated (the write itself failed); doRequest
\* returns the empty string and the error
WriteCacheFails(s) ==
    /\ ~fatal /\ fr[s].pc = "write"
    /\ files' \in {files, (NameOf(s) :> "") @@ files}
    /\ fr' = [fr EXCEPT ![s] = [@ EXCEPT !.pc = "ret", !.body = "", !.err = WriteError]]
    /\ UNCHANGED <<probe, config, op, batch, invalidated>>

(* ---------------------------- Get / Post ------------------------------- *)
Get(url, v) ==
    /\ ~fatal /\ op.kind = "idle"
    /\ op' = [IdleOp EXCEPT !.kind = "Get"]
    /\ fr' = [fr EXCEPT ![Main] = NewFrame(MethodGet, url, v)]
    /\ invalidated' = invalidated \ {url}
    /\ UNCHANGED <<probe, config, files, batch>>

Post(url, v) ==
    /\ ~fatal /\ op.kind = "idle"
    /\ op' = [IdleOp EXCEPT !.kind = "Post"]
    /\ fr' = [fr EXCEPT ![Main] = NewFrame(MethodPost, url, v)]
    /\ invalidated' = invalidated \ {url}
    /\ UNCHANGED <<probe, config, files, batch>>

(* ----------------------------- RemoveCache ----------------------------- *)
\* fileRemove: os.Remove when the name is not empty and the file exists
fileRemove(fs, name) ==
    IF name # "" /\ fileExist(fs, name)
    THEN [n \in DOMAIN fs \ {name} |-> fs[n]]
    ELSE fs

\* RemoveCache(url): removes the entry of (GET, url, no arguments)
RemoveCache(url) ==
    /\ ~fatal /\ op.kind = "idle"
    /\ files' = fileRemove(files, cacheName(MethodGet, url, << >>))
    /\ op' = [IdleOp EXCEPT !.kind = "RemoveCache"]
    /\ fr' = [fr EXCEPT ![Main] = [IdleFrame EXCEPT !.pc = "ret", !.url = url]]
    /\ invalidated' = invalidated \cup {url}
    /\ UNCHANGED <<probe, config, batch>>

(* ------------------------ ChromeGet / CurlGet -------------------------- *)
\* what the browser session or the curl subprocess delivers: an error or
\* the page
Fetched == {[err |-> TRUE, body |-> ""]} \cup {[err |-> FALSE, body |-> b] : b \in Bodies}

\* an alternate strategy that files its entries under a name of its own
AlternateGetOwnName(kind, url, headers, got) ==
    LET name == cacheName(kind, url, << >>)
        cached == name # "" /\ fileExist(files, name) /\ files[name] # ""
        base == [IdleFrame EXCEPT !.method = MethodGet, !.url = url, !.pc = "ret",
                                  !.after = url \in invalidated]
    IN  /\ ~fatal /\ op.kind = "idle"
        /\ op' = [IdleOp EXCEPT !.kind = kind, !.v = headers]
        /\ invalidated' = invalidated \ {url}
        /\ IF cached
           THEN /\ fr' = [fr EXCEPT ![Main] =
                            [base EXCEPT !.hit = TRUE, !.stored = files[name],
                                         !.body = files[name]]]
                /\ files' = files
           ELSE IF got.err
           THEN /\ fr' = [fr EXCEPT ![Main] =
                            [base EXCEPT !.calls = 1, !.err = TransportError]]
                /\ files' = files
           ELSE /\ fr' = [fr EXCEPT ![Main] = [base EXCEPT !.calls = 1, !.body = got.body]]
                /\ files' = IF name # "" THEN (name :> got.body) @@ files ELSE files
        /\ UNCHANGED <<probe, config, batch>>

\* the common shape of ChromeGet and CurlGet: serve a readable, non-empty
\* entry of (GET, url, no arguments); otherwise fetch, store and return.
\* The headers go to the fetch only (op.v keeps them for the caller's view).
AlternateGet(kind, url, headers, got) ==
    LET name == cacheName(MethodGet, url, << >>)
        cached == name # "" /\ fileExist(files, name) /\ files[name] # ""
        base == [IdleFrame EXCEPT !.method = MethodGet, !.url = url, !.pc = "ret",
                                  !.after = url \in invalidated]
    IN  /\ ~fatal /\ op.kind = "idle"
        /\ op' = [IdleOp EXCEPT !.kind = kind, !.v = headers]
        /\ invalidated' = invalidated \ {url}
        /\ IF cached
           THEN /\ fr' = [fr EXCEPT ![Main] =
                            [base EXCEPT !.hit = TRUE, !.stored = files[name],
                                         !.body = files[name]]]
                /\ files' = files
           ELSE IF got.err
           THEN /\ fr' = [fr EXCEPT ![Main] =
                            [base EXCEPT !.calls = 1, !.err = TransportError]]
                /\ files' = files
           ELSE /\ fr' = [fr EXCEPT ![Main] = [base EXCEPT !.calls = 1, !.body = got.body]]
                /\ files' = IF name # "" THEN (name :> got.body) @@ files ELSE files
        /\ UNCHANGED <<probe, config, batch>>

ChromeGet(url) == \E got \in Fetched : AlternateGet("ChromeGet", url, << >>, got)

\* the headers go to curl only; they are no part of the cache name
CurlGet(url, headers) == \E got \in Fetched : AlternateGet("CurlGet", url, headers, got)

\* header sets handed to CurlGet
HeaderSets == {<< >>, <<"h">>}

\* the caller has its result and is free for the next call; the frames and
\* the locals of a finished BatchGet are gone
Return ==
    /\ ~fatal /\ op.kind # "idle"
    /\ fr[Main].pc = "ret"
    /\ op' = IdleOp
    /\ fr' = [s \in Slots |-> IdleFrame]
    /\ sem' = 0
    /\ resMap' = EmptyMap
    /\ errMap' = EmptyMap
    /\ UNCHANGED <<probe, config, files, resMutex, errMutex, fatal, invalidated>>

(* ----------------------------- BatchGet -------------------------------- *)
\* the indices of the url list of the running BatchGet (0-based, as range)
Tasks == 0 .. Len(op.urls) - 1

\* goroutines started by group.Go that have not returned
Running == {i \in Tasks : fr[i].pc \notin {"idle", "fin"}}

\* tasks inside resMap[i] = ...
Writing == {i \in Tasks : fr[i].pc = "writing"}

\* BatchGet is entered: fresh maps, group.SetLimit(defaultLimit)
BatchGet(urls, v) ==
    /\ ~fatal /\ op.kind = "idle"
    /\ op' = [kind |-> "BatchGet", urls |-> urls, v |-> v, next |-> 0,
              limit |-> defaultLimit]
    /\ sem' = 0
    /\ resMap' = EmptyMap
    /\ errMap' = EmptyMap
    /\ UNCHANGED <<probe, config, files, fr, resMutex, errMutex, fatal, invalidated>>

\* group.Go that does not wait for a token
GoUnbounded ==
    /\ ~fatal /\ op.kind = "BatchGet" /\ fr[Main].pc = "idle"
    /\ op.next < Len(op.urls)
    /\ sem' = sem + 1
    /\ fr' = [fr EXCEPT ![op.next] = [IdleFrame EXCEPT !.pc = "start"]]
    /\ op' = [op EXCEPT !.next = @ + 1]
    /\ UNCHANGED <<probe, config, files, resMap, errMap, resMutex, errMutex, fatal, invalidated>>

\* group.Go for the next url of the range loop: waits for a free token of
\* the limit, then starts the goroutine
Go ==
    /\ ~fatal /\ op.kind = "BatchGet" /\ fr[Main].pc = "idle"
    /\ op.next < Len(op.urls)
    /\ sem < op.limit
    /\ sem' = sem + 1
    /\ fr' = [fr EXCEPT ![op.next] = [IdleFrame EXCEPT !.pc = "start"]]
    /\ op' = [op EXCEPT !.next = @ + 1]
    /\ UNCHANGED <<probe, config, files, resMap, errMap, resMutex, errMutex, fatal, invalidated>>

\* the goroutine of index i calls Get(url, v...)
TaskGet(i) ==
    /\ ~fatal /\ op.kind = "BatchGet" /\ i \in Tasks
    /\ fr[i].pc = "start"
    /\ fr' = [fr EXCEPT ![i] = NewFrame(MethodGet, op.urls[i + 1], op.v)]
    /\ invalidated' = invalidated \ {op.urls[i + 1]}
    /\ UNCHANGED <<probe, config, files, op, batch>>

\* what the closure keeps of the Get that returned: url, body and err
Kept(f) == [IdleFrame EXCEPT !.pc = "writing", !.url = f.url, !.body = f.body,
                             !.err = f.err]

\* Get has returned: errMutex.Lock() after an error, resMutex.Lock() otherwise
Lock(i) ==
    /\ ~fatal /\ op.kind = "BatchGet" /\ i \in Tasks
    /\ fr[i].pc = "ret"
    /\ IF fr[i].err # NoErr
       THEN errMutex = NoOwner /\ errMutex' = i /\ resMutex' = resMutex
       ELSE resMutex = NoOwner /\ resMutex' = i /\ errMutex' = errMutex
    /\ fr' = [fr EXCEPT ![i] = Kept(@)]
    /\ UNCHANGED <<probe, config, files, op, sem, resMap, errMap, fatal, invalidated>>

\* the value the closure stores for index i: the url after an error, the
\* body otherwise
Stored(i) == IF fr[i].err # NoErr THEN fr[i].url ELSE fr[i].body

\* resMap[i] = ..., Unlock, return nil: the goroutine is done and gives its
\* token back. A write that overlaps another goroutine's write of the same
\* map is a data race: the write may land, be lost, or the runtime stops
\* the process ("concurrent map writes").
Store(i) ==
    /\ ~fatal /\ op.kind = "BatchGet" /\ i \in Tasks
    /\ fr[i].pc = "writing"
    /\ \/ /\ resMap' = (i :> Stored(i)) @@ resMap
          /\ fatal' = fatal
       \/ /\ Writing # {i}
          /\ resMap' = resMap
          /\ fatal' \in BOOLEAN
    /\ resMutex' = IF resMutex = i THEN NoOwner ELSE resMutex
    /\ errMutex' = IF errMutex = i THEN NoOwner ELSE errMutex
    /\ fr' = [fr EXCEPT ![i] = [@ EXCEPT !.pc = "fin"]]
    /\ sem' = sem - 1
    /\ UNCHANGED <<probe, config, files, op, errMap, invalidated>>

\* a Wait that returns when the range loop is over
WaitEarly ==
    /\ ~fatal /\ op.kind = "BatchGet" /\ fr[Main].pc = "idle"
    /\ op.next = Len(op.urls)
    /\ fr' = [fr EXCEPT ![Main] = [IdleFrame EXCEPT !.pc = "ret"]]
    /\ UNCHANGED <<probe, config, files, op, batch, invalidated>>

\* a closure that hands the error of its Get to the errgroup
ClosureResultItemError(i) == fr[i].err

\* what the closure of index i returns to the errgroup (line 154: return nil)
ClosureResult(i) == NoErr

\* the non-nil errors the goroutines of the group returned
GroupErrors == {ClosureResult(i) : i \in Tasks} \ {NoErr}

\* group.Wait() returns once every started goroutine has returned; its
\* result is the first non-nil error a goroutine returned (any of them, as
\* the order is the scheduler's), nil when there is none
Wait ==
    /\ ~fatal /\ op.kind = "BatchGet" /\ fr[Main].pc = "idle"
    /\ op.next = Len(op.urls)
    /\ Running = {}
    /\ \E e \in (IF GroupErrors = {} THEN {NoErr} ELSE GroupErrors) :
          fr' = [fr EXCEPT ![Main] = [IdleFrame EXCEPT !.pc = "ret", !.err = e]]
    /\ UNCHANGED <<probe, config, files, op, batch, invalidated>>

\* the caller goroutine issuing single fetches and cache maintenance
NextFetch ==
    \/ \E limit \in 1 .. MaxLimit : SetLimit(limit)
    \/ \E retryCount \in 0 .. MaxRetry : SetRetryCount(retryCount)
    \/ \E dir \in CacheDirs : SetCachePath(dir)
    \/ \E url \in Urls, v \in ArgLists : Get(url, v)
    \/ \E url \in Urls, v \in ArgLists : Post(url, v)
    \/ \E url \in Urls : RemoveCache(url)
    \/ \E url \in Urls : ChromeGet(url)
    \/ \E url \in Urls, headers \in HeaderSets : CurlGet(url, headers)
    \/ ReadCache(Main)
    \/ Transport(Main)
    \/ Retry(Main)
    \/ WriteCache(Main)
    \/ Return

SpecFetch == Init /\ [][NextFetch]_vars

\* the same caller on a file system whose reads and writes can fail
NextIO ==
    \/ NextFetch
    \/ ReadCacheFails(Main)
    \/ WriteCacheFails(Main)

SpecIO == Init /\ [][NextIO]_vars

\* a process after its start-up configuration (SetLimit, SetRetryCount,
\* SetCachePath from the defaults), before its first fetch
InitBatch ==
    /\ defaultLimit \in 1 .. MaxLimit
    /\ defaultRetryCount \in 0 .. MaxRetry
    /\ defaultCachePath \in {DefaultCachePath} \cup CacheDirs
    /\ files = << >>
    /\ op = IdleOp
    /\ fr = [s \in Slots |-> IdleFrame]
    /\ sem = 0
    /\ resMap = EmptyMap
    /\ errMap = EmptyMap
    /\ resMutex = NoOwner
    /\ errMutex = NoOwner
    /\ fatal = FALSE
    /\ invalidated = {}
    /\ probe = NoProbe

\* the caller goroutine issuing batches
NextBatch ==
    \/ \E urls \in UrlLists, v \in ArgLists : BatchGet(urls, v)
    \/ Go
    \/ \E i \in 0 .. MaxUrls - 1 : TaskGet(i)
    \/ \E i \in 0 .. MaxUrls - 1 : ReadCache(i)
    \/ \E i \in 0 .. MaxUrls - 1 : Transport(i)
    \/ \E i \in 0 .. MaxUrls - 1 : Retry(i)
    \/ \E i \in 0 .. MaxUrls - 1 : WriteCache(i)
    \/ \E i \in 0 .. MaxUrls - 1 : Lock(i)
    \/ \E i \in 0 .. MaxUrls - 1 : Store(i)
    \/ Wait
    \/ Return

SpecBatch == InitBatch /\ [][NextBatch]_vars

\* the same batches on a file system whose reads and writes can fail
NextBatchIO ==
    \/ NextBatch
    \/ \E i \in 0 .. MaxUrls - 1 : ReadCacheFails(i)
    \/ \E i \in 0 .. MaxUrls - 1 : WriteCacheFails(i)

SpecBatchIO == InitBatch /\ [][NextBatchIO]_vars

\* cacheName is applied to two requests
DeriveNames(a, b) ==
    /\ ~fatal /\ op.kind = "idle"
    /\ probe' = [a |-> a, b |-> b,
                 na |-> cacheName(a.method, a.url, a.v),
                 nb |-> cacheName(b.method, b.url, b.v)]
    /\ UNCHANGED <<config, files, op, fr, batch, invalidated>>

NextKey ==
    \/ \E dir \in CacheDirs : SetCachePath(dir)
    \/ \E a \in Requests, b \in Requests : DeriveNames(a, b)

SpecKey == Init /\ [][NextKey]_vars

\* the whole package
Next == NextFetch \/ NextBatch \/ NextKey

Spec == Init /\ [][Next]_vars

(* ============================== claims ================================= *)
\* the caller is inside a Get or a Post that has returned
FetchReturned == op.kind \in {"Get", "Post"} /\ fr[Main].pc = "ret"

\* the running BatchGet has returned to its caller
BatchReturned == op.kind = "BatchGet" /\ fr[Main].pc = "ret"

\* C1: a Get/Post that finds an entry for its key when it is called returns
\* exactly the bytes stored then, without error, after no transport call and
\* no retry; it is never at the transport or asleep.
C1_CacheShortCircuit ==
    (op.kind \in {"Get", "Post"} /\ fr[Main].hit) =>
        /\ fr[Main].pc \in {"read", "ret"}
        /\ fr[Main].calls = 0
        /\ fr[Main].retryCount = 0
        /\ fr[Main].pc = "ret" =>
              /\ fr[Main].body = fr[Main].stored
              /\ fr[Main].err = NoErr
              /\ fr[Main].body = files[NameOf(Main)]

C1_Witness ==
    /\ FetchReturned /\ op.kind = "Post" /\ fr[Main].hit
    /\ fr[Main].body = "b" /\ fr[Main].v # << >>

\* C2: a Get/Post that missed the cache and whose every transport call was
\* answered with a non-200 status has made exactly defaultRetryCount + 1
\* transport calls when it returns, and returns the status error of the
\* last answer.
C2_RetryBound ==
    (FetchReturned /\ ~fr[Main].hit /\ fr[Main].fails = fr[Main].calls) =>
        /\ fr[Main].calls = defaultRetryCount + 1
        /\ fr[Main].retryCount = defaultRetryCount
        /\ fr[Main].last.code \in FailCodes
        /\ fr[Main].err = StatusError(fr[Main].last.code)
        /\ fr[Main].body = ""

C2_Witness ==
    /\ FetchReturned /\ ~fr[Main].hit /\ fr[Main].fails = fr[Main].calls
    /\ defaultRetryCount = 1 /\ fr[Main].calls = 2
    /\ fr[Main].err = StatusError(500)

\* C3: with caching enabled, a Get/Post that missed the cache, was answered
\* non-200 N times (N < defaultRetryCount) and then 200 with body B returns
\* B without error after exactly N + 1 transport calls, and on return the
\* entry of its key exists and holds B.
C3_RetrySuccess ==
    (/\ FetchReturned /\ ~fr[Main].hit /\ defaultCachePath # ""
     /\ ~fr[Main].last.err /\ fr[Main].last.code = StatusOK
     /\ fr[Main].fails < defaultRetryCount) =>
        /\ fr[Main].body = fr[Main].last.body
        /\ fr[Main].err = NoErr
        /\ fr[Main].calls = fr[Main].fails + 1
        /\ fileExist(files, NameOf(Main))
        /\ files[NameOf(Main)] = fr[Main].last.body

C3_Witness ==
    /\ FetchReturned /\ ~fr[Main].hit /\ defaultCachePath # ""
    /\ fr[Main].last.code = StatusOK /\ fr[Main].last.body = "b"
    /\ fr[Main].fails = 1 /\ defaultRetryCount = 3

\* C4: when BatchGet returns, the error map has an entry at every index
\* whose Get ended in an error.
C4_ErrorsInErrMap ==
    BatchReturned =>
        \A i \in Tasks : fr[i].err # NoErr => i \in DOMAIN errMap

\* C5: when BatchGet returns, every index of the url list is in exactly one
\* of the two maps, no other index is in either, and the result map holds
\* the body at every index whose Get succeeded.
C5_IndexComplete ==
    BatchReturned =>
        /\ (DOMAIN resMap) \cup (DOMAIN errMap) = Tasks
        /\ (DOMAIN resMap) \cap (DOMAIN errMap) = {}
        /\ \A i \in Tasks :
              fr[i].err = NoErr => i \in DOMAIN resMap /\ resMap[i] = fr[i].body

\* tasks inside their fetch: cache I/O, transport call or retry sleep
InFetch == {i \in Tasks : fr[i].pc \in {"read", "do", "sleep", "write"}}

\* C6: during a BatchGet with limit N >= 1 at most N tasks are started and
\* not finished, hence at most N are inside their fetch; the tokens of the
\* limit count exactly the running tasks.
C6_ConcurrencyBound ==
    op.kind = "BatchGet" =>
        /\ Cardinality(Running) <= op.limit
        /\ Cardinality(InFetch) <= op.limit
        /\ sem = Cardinality(Running)

C6_Witness ==
    /\ op.kind = "BatchGet" /\ op.limit = 1
    /\ Cardinality(InFetch) = 1
    /\ op.next < Len(op.urls)

\* C7: the first Get/Post of a url after RemoveCache(url) has returned is
\* not served from the cache and makes at least one transport call.
C7_Invalidation ==
    (FetchReturned /\ fr[Main].after) =>
        ~fr[Main].hit /\ fr[Main].calls >= 1

\* what cacheName hashes after the url
SerializedArgs(v) == IF Len(v) > 0 THEN MarshalToString(v) ELSE ""

\* C8: with a cache root set, two requests derive the same cache name
\* exactly when they agree in method, url and serialized arguments.
C8_KeyInjective ==
    (probe # NoProbe /\ defaultCachePath # "") =>
        (probe.na = probe.nb <=>
            /\ probe.a.method = probe.b.method
            /\ probe.a.url = probe.b.url
            /\ SerializedArgs(probe.a.v) = SerializedArgs(probe.b.v))

\* C9: BatchGet returns only when every task of the url list has run its
\* fetch and its closure to the end, whether or not siblings failed.
C9_FanInBarrier ==
    BatchReturned =>
        /\ op.next = Len(op.urls)
        /\ \A i \in Tasks : fr[i].pc = "fin"

C9_Witness ==
    /\ BatchReturned /\ Len(op.urls) = 2
    /\ \E i, j \in Tasks : fr[i].err # NoErr /\ fr[j].err = NoErr

\* C10: once a transport call of a Get/Post has returned a transport error
\* the fetch has returned that error with an empty body; it made no further
\* call, did not sleep and wrote no entry, whatever retries were left.
C10_TransportErrorNotRetried ==
    (op.kind \in {"Get", "Post"} /\ fr[Main].last.err) =>
        /\ fr[Main].pc = "ret"
        /\ fr[Main].err = TransportError
        /\ fr[Main].body = ""
        /\ fr[Main].calls = fr[Main].retryCount + 1
        /\ ~fileExist(files, NameOf(Main))

C10_Witness ==
    /\ FetchReturned /\ fr[Main].last.err /\ defaultCachePath # ""
    /\ fr[Main].retryCount = 1 /\ defaultRetryCount = 3

\* C11: with caching enabled, a Get/Post whose transport call was answered
\* 200 and whose os.WriteFile failed has returned the write error and the
\* empty string, not the fetched body, and made no transport call after it.
C11_WriteFailureIsHardError ==
    (op.kind \in {"Get", "Post"} /\ fr[Main].err = WriteError) =>
        /\ fr[Main].pc = "ret"
        /\ fr[Main].body = ""
        /\ defaultCachePath # ""
        /\ ~fr[Main].last.err /\ fr[Main].last.code = StatusOK
        /\ fr[Main].calls = fr[Main].fails + 1
        /\ fr[Main].calls = fr[Main].retryCount + 1

C11_Witness ==
    /\ FetchReturned /\ fr[Main].err = WriteError
    /\ fr[Main].last.body = "b" /\ fr[Main].body = ""
    /\ fr[Main].retryCount < defaultRetryCount

\* the caller enters a single fetch (Get, Post, ChromeGet or CurlGet)
FetchStarts == op.kind = "idle" /\ op'.kind \in {"Get", "Post", "ChromeGet", "CurlGet"}

\* the cache name of the fetch the caller has just entered
StartedName == cacheName(fr'[Main].method, fr'[Main].url, fr'[Main].v)

\* C12: no step other than RemoveCache takes an entry away, and every fetch
\* (Get, Post, ChromeGet, CurlGet) entered while the entry of its key exists
\* is served that entry: no network call, the entry left as it is, and the
\* stored bytes returned.
C12_EntryPermanence ==
    [][/\ op'.kind # "RemoveCache" => DOMAIN files \subseteq DOMAIN files'
       /\ (FetchStarts /\ fileExist(files, StartedName)) =>
             /\ fr'[Main].calls = 0
             /\ files' = files
             /\ fr'[Main].pc \in {"read", "ret"}
             /\ fr'[Main].pc = "ret" =>
                   fr'[Main].body = files[StartedName] /\ fr'[Main].err = NoErr]_vars

\* C13: inside a BatchGet, a fetch that has been answered non-200 and is on
\* a retry (retryCount > 0) never reads the cache: each retry goes to the
\* transport, also when a sibling has stored the entry of its key meanwhile.
C13_NoCacheCheckOnRetry ==
    op.kind = "BatchGet" =>
        \A i \in Tasks : fr[i].retryCount > 0 => fr[i].pc # "read"

\* the caller enters ChromeGet or CurlGet
AlternateStarts == op.kind = "idle" /\ op'.kind \in {"ChromeGet", "CurlGet"}

\* C14: ChromeGet(url) and CurlGet(url) decide as Get(url) would in the same
\* cache state: they are served from the cache (no network call, the stored
\* entry returned) exactly when Get(url) would go on to read the entry.
C14_SameCacheCheck ==
    [][AlternateStarts =>
          LET g == NewFrame(MethodGet, fr'[Main].url, << >>)
          IN  /\ (fr'[Main].calls = 0) <=> (g.pc = "read")
              /\ g.pc = "read" =>
                    /\ fr'[Main].body = files[StartedName]
                    /\ fr'[Main].err = NoErr]_vars

\* C15: the error BatchGet returns is nil, whatever its items ended in:
\* transport errors, status errors, cache read or write errors, all of them
\* or some.
C15_AggregateErrorNil ==
    BatchReturned => fr[Main].err = NoErr

C15_Witness ==
    /\ BatchReturned /\ Len(op.urls) = 2
    /\ fr[0].err = WriteError
    /\ fr[1].err \in {TransportError, ReadError, StatusError(404)}
    /\ fr[Main].err = NoErr

\* C16: a step of a Get/Post changes the cache store only as the write that
\* follows a transport call of that fetch answered 200: the only change is
\* the fetch's own entry, set to that answer's body, and the fetch returns
\* without error. A Get/Post that has returned an error has left the store
\* as it found it.
C16_WriteOnlyAfterSuccess ==
    [][(op.kind \in {"Get", "Post"} /\ files' # files) =>
          /\ fr[Main].pc = "write"
          /\ fr[Main].calls >= 1
          /\ ~fr[Main].last.err /\ fr[Main].last.code = StatusOK
          /\ files' = (NameOf(Main) :> fr[Main].last.body) @@ files
          /\ fr'[Main].pc = "ret" /\ fr'[Main].err = NoErr
          /\ fr'[Main].body = fr[Main].last.body]_vars

C16_Witness ==
    /\ FetchReturned /\ fr[Main].err = StatusError(500)
    /\ fr[Main].calls = defaultRetryCount + 1 /\ defaultRetryCount > 0
    /\ defaultCachePath # ""
    /\ ~fileExist(files, NameOf(Main))
    /\ files # << >>

\* the caller is inside a single fetch that has returned
AnyFetchReturned ==
    op.kind \in {"Get", "Post", "ChromeGet", "CurlGet"} /\ fr[Main].pc = "ret"

\* C17: while no cache path is configured, every request's cache name is
\* the empty string, no fetch reads or writes an entry (the store stays
\* empty, no fetch is a hit), every Get/Post/ChromeGet/CurlGet that has
\* returned made a network call, and RemoveCache returns nil and changes
\* nothing.
C17_CachingDisabledByDefault ==
    defaultCachePath = DefaultCachePath =>
        /\ \A m \in Methods, u \in Urls, v \in ArgLists : cacheName(m, u, v) = ""
        /\ files = << >>
        /\ fr[Main].pc \notin {"read", "write"}
        /\ ~fr[Main].hit
        /\ AnyFetchReturned => fr[Main].calls >= 1
        /\ op.kind = "RemoveCache" => fr[Main].pc = "ret" /\ fr[Main].err = NoErr

C17_Witness ==
    /\ defaultCachePath = DefaultCachePath
    /\ AnyFetchReturned /\ op.kind = "CurlGet"
    /\ fr[Main].body = "b" /\ fr[Main].calls = 1
    /\ files = << >>

\* C18: a BatchGet that has not returned can always take a step (so, every
\* call returning and the scheduler being fair, it returns), and no task
\* makes more than defaultRetryCount + 1 transport calls, its retry counter
\* never above defaultRetryCount.
C18_BatchTerminates ==
    op.kind = "BatchGet" =>
        /\ fr[Main].pc = "ret" \/ ENABLED NextBatch
        /\ \A i \in Tasks :
              /\ fr[i].calls <= defaultRetryCount + 1
              /\ fr[i].retryCount <= defaultRetryCount

\* C19: during a BatchGet at most one task is inside its write of the
\* result map, whatever mix of failed and successful fetches runs.
C19_MapWritesExclusive ==
    op.kind = "BatchGet" => Cardinality(Writing) <= 1

\* the cache name of (GET, url, no arguments) for the url of the fetch the
\* caller has just entered
StartedGetName == cacheName(MethodGet, fr'[Main].url, << >>)

\* C20: Get(url) without arguments, ChromeGet(url) and CurlGet(url, headers),
\* for every header set, use the cache name of (GET, url, no arguments):
\* entered while that entry exists and is not empty, each is served the
\* stored bytes without a network call and leaves the store as it is.
C20_SharedGetKey ==
    [][/\ (/\ op.kind = "idle" /\ op'.kind \in {"Get", "ChromeGet", "CurlGet"}
           /\ fr'[Main].v = << >>
           /\ fileExist(files, StartedGetName) /\ files[StartedGetName] # "") =>
             /\ StartedName = StartedGetName
             /\ fr'[Main].calls = 0 /\ fr'[Main].hit
             /\ fr'[Main].stored = files[StartedGetName]
             /\ files' = files
             /\ IF op'.kind = "Get"
                THEN fr'[Main].pc = "read"
                ELSE /\ fr'[Main].pc = "ret"
                     /\ fr'[Main].body = files[StartedGetName]
                     /\ fr'[Main].err = NoErr
       /\ (op.kind = "Get" /\ fr[Main].pc = "read" /\ fr'[Main].pc = "ret") =>
             /\ fr'[Main].body = fr[Main].stored
             /\ fr'[Main].err = NoErr /\ fr'[Main].calls = 0]_vars

C20_Witness ==
    /\ op.kind = "CurlGet" /\ op.v = <<"h">> /\ fr[Main].pc = "ret"
    /\ fr[Main].hit /\ fr[Main].calls = 0
    /\ fr[Main].body = "b" /\ fr[Main].err = NoErr
====
